---- MODULE Spec2Model ----
(***************************************************************************)
(* webanim: WebGPU initialization pipeline (main), the self-rescheduling   *)
(* frame callback, the AppError taxonomy and the development logger.       *)
(*                                                                         *)
(* One JavaScript thread: main() runs in segments separated by its two     *)
(* awaits, the promise rejection handler of main().catch runs after main   *)
(* has thrown, and the host's frame scheduler invokes frame() once per     *)
(* requestAnimationFrame registration.  Host responses (element present,   *)
(* adapter returned, promise rejected, call throws) are inputs drawn with  *)
(* \E in the action that receives them.                                    *)
(***************************************************************************)
EXTENDS Integers, Sequences, FiniteSets, TLC

\* ------------------------------------------------------------------ bounds
\* opaque platform values 1..NumCauses (truthy) and 0 (a falsy value)
NumCauses == 1
\* length of the recorded per-frame history (the loop itself is not bounded)
MaxFrames == 3
\* length of the recorded logger history
MaxLog == 14
\* length of the recorded history of method calls on one error
MaxCalls == 2
\* number of logger calls made when logger.ts is exercised alone
MaxLogCalls == 4
\* number of steps of a run that is run again under the other build mode
MaxScript == 10

\* ------------------------------------------------------- errors.ts: types
ErrorTypes == {"unavailable", "not_found", "failed", "initialization_failed"}

Surfaces == {"webgpu", "adapter", "device", "context", "canvas", "pipeline"}

\* ErrorCode = `${ErrorType}:${Surface}`, kept as the pair the string joins
ErrorCodes == ErrorTypes \X Surfaces

NoCode == <<"", "">>

visibilityBySurface ==
  [s \in Surfaces |->
     CASE s = "webgpu"   -> "user"
       [] s = "adapter"  -> "user"
       [] s = "device"   -> "log"
       [] s = "context"  -> "user"
       [] s = "canvas"   -> "user"
       [] s = "pipeline" -> "log"]

FallbackMessage == "Something went wrong. Please try again later."

\* the case "failed:pipeline" is missing from the switch
getMessageByErrorCode_NoPipeline(errorCode) ==
  CASE errorCode = <<"unavailable", "webgpu">> ->
         "WebGPU is not available in this environment."
    [] errorCode = <<"not_found", "canvas">> -> "Canvas element not found."
    [] errorCode = <<"not_found", "adapter">> -> "No suitable GPU adapter found."
    [] errorCode = <<"failed", "device">> -> "Failed to request a GPU device."
    [] errorCode = <<"initialization_failed", "context">> ->
         "Failed to initialize WebGPU canvas context."
    [] OTHER -> "Something went wrong. Please try again later."

getMessageByErrorCode(errorCode) ==
  CASE errorCode = <<"unavailable", "webgpu">> ->
         "WebGPU is not available in this environment."
    [] errorCode = <<"not_found", "canvas">> -> "Canvas element not found."
    [] errorCode = <<"not_found", "adapter">> -> "No suitable GPU adapter found."
    [] errorCode = <<"failed", "device">> -> "Failed to request a GPU device."
    [] errorCode = <<"initialization_failed", "context">> ->
         "Failed to initialize WebGPU canvas context."
    [] errorCode = <<"failed", "pipeline">> -> "Failed to create render pipeline."
    [] OTHER -> FallbackMessage

\* ------------------------------------------------------------ JS values
\* undefined (an omitted argument)
Undefined == [k |-> "undefined", v |-> 0, isError |-> FALSE]

\* a value the platform throws or rejects with: v = 0 is a falsy value,
\* isError says whether it is an instance of Error (an object, hence truthy)
HostValue(n, e) == [k |-> "value", v |-> n, isError |-> e]

HostValues ==
  {HostValue(0, FALSE)} \cup
  {HostValue(n, e) : n \in 1..NumCauses, e \in BOOLEAN}

Truthy(x) == x.k = "value" /\ x.v # 0

\* ------------------------------------------------------ errors.ts: AppError
\* new <Subclass>(cause): the fields the constructor assigns
AppError(errorCode, cause, name) ==
  [kind    |-> "AppError",
   type    |-> errorCode[1],
   surface |-> errorCode[2],
   code    |-> errorCode,
   cause   |-> cause,
   message |-> getMessageByErrorCode(errorCode),
   name    |-> name]

WebGPUUnavailableError(cause) ==
  AppError(<<"unavailable", "webgpu">>, cause, "WebGPUUnavailableError")

CanvasNotFoundError(cause) ==
  AppError(<<"not_found", "canvas">>, cause, "CanvasNotFoundError")

AdapterNotFoundError(cause) ==
  AppError(<<"not_found", "adapter">>, cause, "AdapterNotFoundError")

DeviceRequestFailedError(cause) ==
  AppError(<<"failed", "device">>, cause, "DeviceRequestFailedError")

ContextInitFailedError(cause) ==
  AppError(<<"initialization_failed", "context">>, cause, "ContextInitFailedError")

PipelineCreationFailedError(cause) ==
  AppError(<<"failed", "pipeline">>, cause, "PipelineCreationFailedError")

\* the lookup is keyed by the failure kind for "failed" errors
getVisibility_ByType(err) ==
  IF err.type = "failed" THEN "log" ELSE visibilityBySurface[err.surface]

\* errors.ts 54-56
getVisibility(err) == visibilityBySurface[err.surface]

\* errors.ts 61-64
shouldShowToUser(err) ==
  LET visibility == getVisibility(err)
  IN visibility = "user" \/ visibility = "both"

\* the test of shouldShowToUser pasted into shouldLog
shouldLog_Pasted(err) ==
  LET visibility == visibilityBySurface[err.surface]
  IN visibility = "user" \/ visibility = "both"

\* errors.ts 69-72
shouldLog(err) ==
  LET visibility == getVisibility(err)
  IN visibility = "log" \/ visibility = "both"

\* the cause is tested with !== undefined instead of for truthiness
toJSON_DefinedCause(err, stack) ==
  LET json == [code       |-> err.code,
               message    |-> err.message,
               type       |-> err.type,
               surface    |-> err.surface,
               visibility |-> visibilityBySurface[err.surface]]
      withCause == IF err.cause # Undefined THEN ("cause" :> err.cause) @@ json
                   ELSE json
  IN IF stack THEN ("stack" :> "this.stack") @@ withCause ELSE withCause

\* errors.ts 77-111: the object toJSON returns; stack says whether this.stack
\* is a non-empty string (the engine sets it, the code does not)
toJSON(err, stack) ==
  LET json == [code       |-> err.code,
               message    |-> err.message,
               type       |-> err.type,
               surface    |-> err.surface,
               visibility |-> getVisibility(err)]
      withCause == IF Truthy(err.cause) THEN ("cause" :> err.cause) @@ json
                   ELSE json
  IN IF stack THEN ("stack" :> "this.stack") @@ withCause ELSE withCause

\* a value thrown by the platform, as the thrown thing main or frame sees
Raw(x) ==
  [kind    |-> IF x.isError THEN "Error" ELSE "value",
   type    |-> "",
   surface |-> "",
   code    |-> NoCode,
   cause   |-> x,
   message |-> "host",
   name    |-> IF x.isError THEN "Error" ELSE ""]

NoError ==
  [kind |-> "none", type |-> "", surface |-> "", code |-> NoCode,
   cause |-> Undefined, message |-> "", name |-> ""]

\* err instanceof Error ? err : new Error(String(err))
ToError(err) ==
  IF err.kind \in {"AppError", "Error"}
    THEN err
    ELSE [err EXCEPT !.kind = "Error", !.name = "Error", !.message = "String(err)"]

InitCodes ==
  {<<"not_found", "canvas">>, <<"unavailable", "webgpu">>,
   <<"not_found", "adapter">>, <<"failed", "device">>,
   <<"initialization_failed", "context">>}

\* ------------------------------------------------------------------ state
VARIABLES
  isDevelopment,  \* logger.ts: import.meta.env.DEV, read once
  state,          \* position of main(): the pipeline state
  awaiting,       \* the await main() is suspended at: none, adapter, device
  failure,        \* what main() threw (NoError while it has not)
  mainPromise,    \* pending, fulfilled, rejected, handled (catch has run)
  steps,          \* initialization steps attempted, in order
  hostResponse,   \* what the host answered to the latest initialization step
  resources,      \* handles acquired and number of context.configure calls
  rafRequests,    \* requestAnimationFrame calls made so far (history, capped)
  rafPending,     \* callbacks registered with the host and not yet invoked
  frameTick,      \* parity of the number of frame invocations
  frameLog,       \* per frame invocation: failing call, submitted, requests
  frameTrace,     \* host calls of the latest frame invocation, in order
  logCalls,       \* calls of the logger's entry points (history, capped)
  console,        \* records the logger emitted (history, capped)
  userDisplay,    \* messages put on a user-facing display
  libInput,       \* errors.ts exercised alone: the arguments of the constructor
  subject,        \* errors.ts exercised alone: the error constructed
  results,        \* errors.ts exercised alone: what the method calls returned
  run,            \* two runs compared: 1 first run, 2 second run (0: not compared)
  script,         \* two runs compared: the steps and host answers of the first run
  pos,            \* two runs compared: the next step of script the second run takes
  obs             \* two runs compared: what the first run showed after each step

vars ==
  <<isDevelopment, state, awaiting, failure, mainPromise, steps,
    hostResponse, resources, rafRequests, rafPending, frameTick, frameLog,
    frameTrace, logCalls, console, userDisplay, libInput, subject, results,
    run, script, pos, obs>>

PairVars == <<run, script, pos, obs>>

LibVars == <<libInput, subject, results>>

StepOrder ==
  <<"resolve_target", "check_capability", "request_adapter",
    "request_device", "configure_context">>

States ==
  <<"Idle", "TargetResolved", "CapabilityChecked", "AdapterAcquired",
    "DeviceAcquired", "ContextConfigured", "Running">>

Rank(s) ==
  IF s = "Failed" THEN 8
  ELSE CHOOSE i \in 1..Len(States) : States[i] = s

\* capped history append: entries 1..max-1 are the first max-1 events, entry
\* max is the latest event once max or more have happened
Push(seq, x, max) ==
  IF Len(seq) < max THEN Append(seq, x) ELSE [seq EXCEPT ![max] = x]

Inc(n, max) == IF n < max THEN n + 1 ELSE n

\* -------------------------------------------------------------- logger.ts
Logger == [calls |-> logCalls, out |-> console]

Emit(L, rec) ==
  [calls |-> Push(L.calls, rec, MaxLog),
   out   |-> IF ~isDevelopment THEN L.out ELSE Push(L.out, rec, MaxLog)]

debug(L, message) ==
  Emit(L, [level |-> "debug", tag |-> message, name |-> "", code |-> NoCode,
           cause |-> Undefined])

\* logger.ts 149-155
info(L, message) ==
  Emit(L, [level |-> "info", tag |-> message, name |-> "", code |-> NoCode,
           cause |-> Undefined])

\* warn writes its record whatever the build mode
warn_Ungated(L, message) ==
  LET rec == [level |-> "warn", tag |-> message, name |-> "", code |-> NoCode,
              cause |-> Undefined]
  IN [calls |-> Push(L.calls, rec, MaxLog), out |-> Push(L.out, rec, MaxLog)]

\* logger.ts 138-144
warn(L, message) ==
  Emit(L, [level |-> "warn", tag |-> message, name |-> "", code |-> NoCode,
           cause |-> Undefined])

\* error(error, context): context is {phase: ...}
error(L, err, phase) ==
  Emit(L, [level |-> "error", tag |-> phase, name |-> err.name,
           code  |-> IF err.kind = "AppError" THEN err.code ELSE NoCode,
           cause |-> IF err.kind = "AppError" /\ Truthy(err.cause)
                       THEN err.cause ELSE Undefined])

SetLog(L) == logCalls' = L.calls /\ console' = L.out

\* no error is being exercised outside of main
NoInput == [code |-> NoCode, cause |-> Undefined, stack |-> FALSE]

NoSubject == [err |-> NoError, stack |-> FALSE]

\* -------------------------------------------------------------------- Init
MainIdle ==
  /\ isDevelopment \in BOOLEAN
  /\ state = "Idle"
  /\ awaiting = "none"
  /\ failure = NoError
  /\ mainPromise = "pending"
  /\ steps = <<>>
  /\ hostResponse = [step |-> 0, fault |-> "none", value |-> Undefined]
  /\ resources = [adapter |-> FALSE, device |-> FALSE, context |-> FALSE,
                  configures |-> 0]
  /\ rafRequests = 0
  /\ rafPending = 0
  /\ frameTick = 0
  /\ frameLog = <<>>
  /\ frameTrace = <<>>
  /\ logCalls = <<>>
  /\ console = <<>>
  /\ userDisplay = <<>>

PairIdle == run = 0 /\ script = <<>> /\ pos = 0 /\ obs = <<>>

Init ==
  /\ MainIdle
  /\ libInput = NoInput
  /\ subject = NoSubject
  /\ results = <<>>
  /\ PairIdle

\* main() throws err: the async function's promise rejects
Throw(err) ==
  /\ state' = "Failed"
  /\ failure' = err
  /\ mainPromise' = "rejected"
  /\ awaiting' = "none"

FrameVars == <<rafRequests, rafPending, frameTick, frameLog, frameTrace>>

\* the host's answer to initialization step number step
Respond(step, fault, value) ==
  hostResponse' = [step |-> step, fault |-> fault, value |-> value]

Live == mainPromise = "pending" /\ awaiting = "none"

\* main.ts 11-16: lookup of the canvas element
ResolveTarget ==
  /\ Live /\ state = "Idle"
  /\ steps' = Append(steps, "resolve_target")
  /\ \E canvas \in BOOLEAN :
       IF ~canvas
         THEN /\ Respond(1, "canvas_absent", Undefined)
              /\ Throw(CanvasNotFoundError(Undefined))
              /\ SetLog(debug(Logger, "Starting WebGPU initialization"))
         ELSE /\ Respond(1, "none", Undefined)
              /\ state' = "TargetResolved"
              /\ SetLog(debug(debug(Logger, "Starting WebGPU initialization"),
                              "Canvas found"))
              /\ UNCHANGED <<failure, mainPromise, awaiting>>
  /\ UNCHANGED <<isDevelopment, userDisplay, LibVars, resources>>
  /\ UNCHANGED FrameVars

\* main.ts 18-20: "gpu" in navigator
CheckCapability ==
  /\ Live /\ state = "TargetResolved"
  /\ steps' = Append(steps, "check_capability")
  /\ \E gpu \in BOOLEAN :
       IF ~gpu
         THEN /\ Respond(2, "gpu_absent", Undefined)
              /\ Throw(WebGPUUnavailableError(Undefined))
              /\ UNCHANGED <<logCalls, console>>
         ELSE /\ Respond(2, "none", Undefined)
              /\ state' = "CapabilityChecked"
              /\ SetLog(debug(Logger, "WebGPU is available in navigator"))
              /\ UNCHANGED <<failure, mainPromise, awaiting>>
  /\ UNCHANGED <<isDevelopment, userDisplay, LibVars, resources>>
  /\ UNCHANGED FrameVars

\* main.ts 22-23: navigator.gpu.requestAdapter() is called and main suspends
RequestAdapter ==
  /\ Live /\ state = "CapabilityChecked"
  /\ steps' = Append(steps, "request_adapter")
  /\ awaiting' = "adapter"
  /\ SetLog(debug(Logger, "Requesting GPU adapter"))
  /\ UNCHANGED <<isDevelopment, userDisplay, LibVars, state, failure, mainPromise, resources,
                 hostResponse>>
  /\ UNCHANGED FrameVars

\* main.ts 23-26: the adapter promise settles and main resumes
AdapterSettled ==
  /\ mainPromise = "pending" /\ awaiting = "adapter"
  /\ \/ \* resolves to an adapter
        /\ Respond(3, "none", Undefined)
        /\ state' = "AdapterAcquired"
        /\ awaiting' = "none"
        /\ resources' = [resources EXCEPT !.adapter = TRUE]
        /\ SetLog(debug(Logger, "GPU adapter obtained"))
        /\ UNCHANGED <<failure, mainPromise>>
     \/ \* resolves to null
        /\ Respond(3, "adapter_null", Undefined)
        /\ Throw(AdapterNotFoundError(Undefined))
        /\ UNCHANGED <<resources, logCalls, console>>
     \/ \* rejects: nothing catches it in main
        /\ \E x \in HostValues :
             Respond(3, "adapter_rejected", x) /\ Throw(Raw(x))
        /\ UNCHANGED <<resources, logCalls, console>>
  /\ UNCHANGED <<isDevelopment, userDisplay, LibVars, steps>>
  /\ UNCHANGED FrameVars

\* main.ts 28-31: adapter.requestDevice() is called and main suspends
RequestDevice ==
  /\ Live /\ state = "AdapterAcquired"
  /\ steps' = Append(steps, "request_device")
  /\ awaiting' = "device"
  /\ SetLog(debug(Logger, "Requesting GPU device"))
  /\ UNCHANGED <<isDevelopment, userDisplay, LibVars, state, failure, mainPromise, resources,
                 hostResponse>>
  /\ UNCHANGED FrameVars

\* the catch block of main.ts 32-34 reports the rejection and does not rethrow
DeviceSettled_Swallow ==
  /\ mainPromise = "pending" /\ awaiting = "device"
  /\ \/ /\ Respond(4, "none", Undefined)
        /\ resources' = [resources EXCEPT !.device = TRUE]
     \/ /\ \E x \in HostValues : Respond(4, "device_rejected", x)
        /\ UNCHANGED resources
  /\ state' = "DeviceAcquired"
  /\ awaiting' = "none"
  /\ SetLog(debug(Logger, "GPU device obtained"))
  /\ UNCHANGED <<isDevelopment, userDisplay, LibVars, steps, failure, mainPromise>>
  /\ UNCHANGED FrameVars

\* main.ts 31-35: the device promise settles and main resumes
DeviceSettled ==
  /\ mainPromise = "pending" /\ awaiting = "device"
  /\ \/ \* resolves to a device
        /\ Respond(4, "none", Undefined)
        /\ state' = "DeviceAcquired"
        /\ awaiting' = "none"
        /\ resources' = [resources EXCEPT !.device = TRUE]
        /\ SetLog(debug(Logger, "GPU device obtained"))
        /\ UNCHANGED <<failure, mainPromise>>
     \/ \* rejects with x: catch (error) { throw new DeviceRequestFailedError(error) }
        /\ \E x \in HostValues :
             Respond(4, "device_rejected", x) /\ Throw(DeviceRequestFailedError(x))
        /\ UNCHANGED <<resources, logCalls, console>>
  /\ UNCHANGED <<isDevelopment, userDisplay, LibVars, steps>>
  /\ UNCHANGED FrameVars

\* what the three calls of main.ts 39-53 can do
ContextOutcomes ==
  {"ok", "context_null", "getContext_throws", "format_throws", "configure_throws"}

\* main.ts 38-54: getContext, getPreferredCanvasFormat, configure
ConfigureContext ==
  /\ Live /\ state = "DeviceAcquired"
  /\ steps' = Append(steps, "configure_context")
  /\ \E outcome \in ContextOutcomes, x \in HostValues :
       LET L1 == debug(Logger, "Getting WebGPU canvas context")
           L2 == debug(L1, "Configuring canvas context")
           L3 == debug(L2, "Canvas context configured successfully")
       IN CASE outcome = "getContext_throws" ->
                 /\ Respond(5, outcome, x)
                 /\ Throw(Raw(x))
                 /\ SetLog(L1)
                 /\ UNCHANGED resources
            [] outcome = "context_null" ->
                 /\ x = HostValue(0, FALSE)
                 /\ Respond(5, outcome, Undefined)
                 /\ Throw(ContextInitFailedError(Undefined))
                 /\ SetLog(L1)
                 /\ UNCHANGED resources
            [] outcome = "format_throws" ->
                 /\ Respond(5, outcome, x)
                 /\ Throw(Raw(x))
                 /\ SetLog(L1)
                 /\ resources' = [resources EXCEPT !.context = TRUE]
            [] outcome = "configure_throws" ->
                 /\ Respond(5, outcome, x)
                 /\ Throw(Raw(x))
                 /\ SetLog(L2)
                 /\ resources' =
                      [resources EXCEPT !.context = TRUE,
                                        !.configures = Inc(@, MaxFrames)]
            [] outcome = "ok" ->
                 /\ x = HostValue(0, FALSE)
                 /\ Respond(5, "none", Undefined)
                 /\ state' = "ContextConfigured"
                 /\ SetLog(L3)
                 /\ resources' =
                      [resources EXCEPT !.context = TRUE,
                                        !.configures = Inc(@, MaxFrames)]
                 /\ UNCHANGED <<failure, mainPromise, awaiting>>
  /\ UNCHANGED <<isDevelopment, userDisplay, LibVars>>
  /\ UNCHANGED FrameVars

\* frame() is called directly after being registered, so it registers itself
\* a second time before main returns
StartRenderLoop_Twice ==
  /\ Live /\ state = "ContextConfigured"
  /\ state' = "Running"
  /\ rafRequests' = Inc(Inc(rafRequests, MaxFrames + 1), MaxFrames + 1)
  /\ rafPending' = rafPending + 2
  /\ mainPromise' = "fulfilled"
  /\ SetLog(debug(debug(Logger, "Starting render loop"),
                  "Initialization complete, render loop started"))
  /\ UNCHANGED <<isDevelopment, userDisplay, LibVars, awaiting, failure, steps, hostResponse,
                 resources, frameTick, frameLog, frameTrace>>

\* main.ts 57, 89-91: the first requestAnimationFrame(frame); main returns
StartRenderLoop ==
  /\ Live /\ state = "ContextConfigured"
  /\ state' = "Running"
  /\ rafRequests' = Inc(rafRequests, MaxFrames + 1)
  /\ rafPending' = rafPending + 1
  /\ mainPromise' = "fulfilled"
  /\ SetLog(debug(debug(Logger, "Starting render loop"),
                  "Initialization complete, render loop started"))
  /\ UNCHANGED <<isDevelopment, userDisplay, LibVars, awaiting, failure, steps, hostResponse,
                 resources, frameTick, frameLog, frameTrace>>

\* the rejection handler reports the failure and calls main() again
TopLevelCatch_Retry ==
  /\ mainPromise = "rejected"
  /\ mainPromise' = "pending"
  /\ state' = "Idle"
  /\ SetLog(error(Logger, ToError(failure), "main_initialization"))
  /\ UNCHANGED <<isDevelopment, userDisplay, LibVars, awaiting, failure, steps, hostResponse,
                 resources>>
  /\ UNCHANGED FrameVars

\* the rejection handler writes to the console itself and never calls the
\* logger (the handler of the earlier main.ts kept in unnamed/part_000 69-71)
TopLevelCatch_ConsoleOnly ==
  /\ mainPromise = "rejected"
  /\ mainPromise' = "handled"
  /\ UNCHANGED <<isDevelopment, userDisplay, LibVars, state, awaiting, failure, steps, hostResponse,
                 resources, logCalls, console>>
  /\ UNCHANGED FrameVars

\* main.ts 93-97: main().catch(err => logger.error(..., main_initialization))
TopLevelCatch ==
  /\ mainPromise = "rejected"
  /\ mainPromise' = "handled"
  /\ SetLog(error(Logger, ToError(failure), "main_initialization"))
  /\ UNCHANGED <<isDevelopment, userDisplay, LibVars, state, awaiting, failure, steps, hostResponse,
                 resources>>
  /\ UNCHANGED FrameVars

\* the host calls of the frame body, main.ts 60-77, in order
FrameCalls ==
  <<"getCurrentTexture", "createView", "createCommandEncoder",
    "beginRenderPass", "end", "finish", "submit">>

\* the request for the next frame sits behind a development-only branch
ReachesReschedule_DevOnly(failAt) == failAt = 0 /\ isDevelopment

\* whether the body reaches requestAnimationFrame(frame), main.ts 79, when
\* call number failAt of FrameCalls throws (0: none throws)
ReachesReschedule(failAt) == failAt = 0

\* the try block opens after the texture view has been acquired
InsideTry_AfterAcquire(failAt) == failAt \in 3..Len(FrameCalls)

\* main.ts 59, 80: the calls of the body that the try block encloses
InsideTry(failAt) == failAt \in 1..Len(FrameCalls)

\* requestAnimationFrame(frame) is the first statement of frame()
Frame_RequestFirst ==
  /\ rafPending > 0
  /\ \E failAt \in 0..Len(FrameCalls), x \in HostValues :
       LET rafs == 1
           caught == failAt # 0 /\ InsideTry(failAt)
           attempted == IF failAt = 0 THEN FrameCalls
                        ELSE SubSeq(FrameCalls, 1, failAt)
       IN /\ failAt = 0 => x = HostValue(0, FALSE)
          /\ frameTrace' =
               <<"requestAnimationFrame">> \o attempted
               \o (IF caught THEN <<"logger.error">> ELSE <<>>)
          /\ frameLog' =
               Push(frameLog,
                    [failAt     |-> failAt,
                     submitted  |-> failAt = 0,
                     rafs       |-> rafs,
                     propagated |-> failAt # 0 /\ ~caught],
                    MaxFrames)
          /\ rafRequests' =
               IF rafs = 1 THEN Inc(rafRequests, MaxFrames + 1) ELSE rafRequests
          /\ rafPending' = rafPending - 1 + rafs
          /\ IF caught
               THEN SetLog(error(Logger, ToError(Raw(x)), "render_frame"))
               ELSE UNCHANGED <<logCalls, console>>
  /\ frameTick' = 1 - frameTick
  /\ UNCHANGED <<isDevelopment, userDisplay, LibVars, state, awaiting, failure, mainPromise, steps,
                 hostResponse, resources>>

\* frame() configures the context again before it acquires the texture
Frame_Reconfigure ==
  /\ rafPending > 0
  /\ \E failAt \in 0..Len(FrameCalls), x \in HostValues :
       LET rafs == IF ReachesReschedule(failAt) THEN 1 ELSE 0
           caught == failAt # 0 /\ InsideTry(failAt)
           attempted == IF failAt = 0 THEN FrameCalls
                        ELSE SubSeq(FrameCalls, 1, failAt)
       IN /\ failAt = 0 => x = HostValue(0, FALSE)
          /\ frameTrace' =
               attempted
               \o (IF rafs = 1 THEN <<"requestAnimationFrame">> ELSE <<>>)
               \o (IF caught THEN <<"logger.error">> ELSE <<>>)
          /\ frameLog' =
               Push(frameLog,
                    [failAt     |-> failAt,
                     submitted  |-> failAt = 0,
                     rafs       |-> rafs,
                     propagated |-> failAt # 0 /\ ~caught],
                    MaxFrames)
          /\ rafRequests' =
               IF rafs = 1 THEN Inc(rafRequests, MaxFrames + 1) ELSE rafRequests
          /\ rafPending' = rafPending - 1 + rafs
          /\ IF caught
               THEN SetLog(error(Logger, ToError(Raw(x)), "render_frame"))
               ELSE UNCHANGED <<logCalls, console>>
  /\ frameTick' = 1 - frameTick
  /\ resources' = [resources EXCEPT !.configures = Inc(@, MaxFrames)]
  /\ UNCHANGED <<isDevelopment, userDisplay, LibVars, state, awaiting, failure,
                 mainPromise, steps, hostResponse>>

\* main.ts 58-87: one invocation of frame() by the host's frame scheduler
Frame ==
  /\ rafPending > 0
  /\ \E failAt \in 0..Len(FrameCalls), x \in HostValues :
       LET rafs == IF ReachesReschedule(failAt) THEN 1 ELSE 0
           caught == failAt # 0 /\ InsideTry(failAt)
           attempted == IF failAt = 0 THEN FrameCalls
                        ELSE SubSeq(FrameCalls, 1, failAt)
       IN /\ failAt = 0 => x = HostValue(0, FALSE)
          /\ frameTrace' =
               attempted
               \o (IF rafs = 1 THEN <<"requestAnimationFrame">> ELSE <<>>)
               \o (IF caught THEN <<"logger.error">> ELSE <<>>)
          /\ frameLog' =
               Push(frameLog,
                    [failAt     |-> failAt,
                     submitted  |-> failAt = 0,
                     rafs       |-> rafs,
                     propagated |-> failAt # 0 /\ ~caught],
                    MaxFrames)
          /\ rafRequests' =
               IF rafs = 1 THEN Inc(rafRequests, MaxFrames + 1) ELSE rafRequests
          /\ rafPending' = rafPending - 1 + rafs
          /\ IF caught
               THEN SetLog(error(Logger, ToError(Raw(x)), "render_frame"))
               ELSE UNCHANGED <<logCalls, console>>
  /\ frameTick' = 1 - frameTick
  /\ UNCHANGED <<isDevelopment, userDisplay, LibVars, state, awaiting, failure, mainPromise, steps,
                 hostResponse, resources>>

\* the program alone: no second run is kept beside it
Next ==
  \/ ResolveTarget /\ UNCHANGED PairVars
  \/ CheckCapability /\ UNCHANGED PairVars
  \/ RequestAdapter /\ UNCHANGED PairVars
  \/ AdapterSettled /\ UNCHANGED PairVars
  \/ RequestDevice /\ UNCHANGED PairVars
  \/ DeviceSettled /\ UNCHANGED PairVars
  \/ ConfigureContext /\ UNCHANGED PairVars
  \/ StartRenderLoop /\ UNCHANGED PairVars
  \/ TopLevelCatch /\ UNCHANGED PairVars
  \/ Frame /\ UNCHANGED PairVars

Spec == Init /\ [][Next]_vars

\* the host settles promises, runs the rejection handler and invokes every
\* registered frame callback
LiveSpec == Spec /\ WF_vars(Next) /\ WF_vars(Frame /\ UNCHANGED PairVars)

\* ------------------------------------------- errors.ts exercised alone
MainVars ==
  <<isDevelopment, state, awaiting, failure, mainPromise, steps, hostResponse,
    resources, rafRequests, rafPending, frameTick, frameLog, frameTrace,
    logCalls, console, userDisplay>>

\* what a caller may pass as cause: nothing, a falsy value, a truthy value
LibCauses == {Undefined} \cup HostValues

\* the arguments of the constructor are drawn here
LibInit ==
  /\ MainIdle
  /\ libInput \in [code : ErrorCodes, cause : LibCauses, stack : BOOLEAN]
  /\ subject = NoSubject
  /\ results = <<>>
  /\ PairIdle

\* the subclass of errors.ts 147-196 whose code is errorCode
Subclass(errorCode, cause) ==
  CASE errorCode = <<"unavailable", "webgpu">> -> WebGPUUnavailableError(cause)
    [] errorCode = <<"not_found", "canvas">> -> CanvasNotFoundError(cause)
    [] errorCode = <<"not_found", "adapter">> -> AdapterNotFoundError(cause)
    [] errorCode = <<"failed", "device">> -> DeviceRequestFailedError(cause)
    [] errorCode = <<"initialization_failed", "context">> ->
         ContextInitFailedError(cause)
    [] errorCode = <<"failed", "pipeline">> -> PipelineCreationFailedError(cause)

DefinedCodes == InitCodes \cup {<<"failed", "pipeline">>}

\* new AppError(code, cause), or new <Subclass>(cause) for a code that has one
Construct ==
  /\ subject = NoSubject
  /\ \/ subject' = [err   |-> AppError(libInput.code, libInput.cause, "AppError"),
                    stack |-> libInput.stack]
     \/ /\ libInput.code \in DefinedCodes
        /\ subject' = [err   |-> Subclass(libInput.code, libInput.cause),
                       stack |-> libInput.stack]
  /\ UNCHANGED <<libInput, results>>
  /\ UNCHANGED MainVars
  /\ UNCHANGED PairVars

Returned(op, value) ==
  /\ results' = Push(results, [op |-> op, value |-> value], MaxCalls)
  /\ UNCHANGED <<libInput, subject>>
  /\ UNCHANGED MainVars
  /\ UNCHANGED PairVars

\* getMessageByErrorCode(code), errors.ts 117-140
CallGetMessage ==
  Returned("getMessageByErrorCode", getMessageByErrorCode(libInput.code))

CallGetVisibility ==
  /\ subject # NoSubject
  /\ Returned("getVisibility", getVisibility(subject.err))

CallShouldShowToUser ==
  /\ subject # NoSubject
  /\ Returned("shouldShowToUser", shouldShowToUser(subject.err))

CallShouldLog ==
  /\ subject # NoSubject
  /\ Returned("shouldLog", shouldLog(subject.err))

\* toJSON moves the cause into the object it returns and clears this.cause
CallToJSON_MovesCause ==
  /\ subject # NoSubject
  /\ results' = Push(results,
                     [op |-> "toJSON", value |-> toJSON(subject.err, subject.stack)],
                     MaxCalls)
  /\ subject' = [subject EXCEPT !.err.cause = Undefined]
  /\ UNCHANGED libInput
  /\ UNCHANGED MainVars
  /\ UNCHANGED PairVars

CallToJSON ==
  /\ subject # NoSubject
  /\ Returned("toJSON", toJSON(subject.err, subject.stack))

LibNext ==
  \/ Construct
  \/ CallGetMessage
  \/ CallGetVisibility
  \/ CallShouldShowToUser
  \/ CallShouldLog
  \/ CallToJSON

LibSpec == LibInit /\ [][LibNext]_vars

\* ------------------------------------------- logger.ts exercised alone
Messages == {"message"}

LoggedErrors ==
  {DeviceRequestFailedError(HostValue(1, TRUE)), ToError(Raw(HostValue(0, FALSE)))}

Phases == {"main_initialization", "render_frame"}

LoggerCall(L) ==
  /\ Len(logCalls) < MaxLogCalls
  /\ SetLog(L)
  /\ UNCHANGED <<isDevelopment, state, awaiting, failure, mainPromise, steps,
                 hostResponse, resources, userDisplay>>
  /\ UNCHANGED FrameVars
  /\ UNCHANGED LibVars
  /\ UNCHANGED PairVars

CallDebug == \E m \in Messages : LoggerCall(debug(Logger, m))

CallInfo == \E m \in Messages : LoggerCall(info(Logger, m))

CallWarn == \E m \in Messages : LoggerCall(warn(Logger, m))

CallError ==
  \E e \in LoggedErrors, phase \in Phases : LoggerCall(error(Logger, e, phase))

LoggerNext ==
  \/ CallDebug
  \/ CallInfo
  \/ CallWarn
  \/ CallError

LoggerSpec == Init /\ [][LoggerNext]_vars

\* ------------------------------------------------------------- properties
IsPrefix(s, t) ==
  /\ Len(s) <= Len(t)
  /\ \A i \in 1..Len(s) : s[i] = t[i]

\* calls of logger.error tagged with the given phase
ErrorCalls(phase) ==
  Cardinality({i \in DOMAIN logCalls :
                 logCalls[i].level = "error" /\ logCalls[i].tag = phase})

FailedFrames == {i \in DOMAIN frameLog : frameLog[i].failAt # 0}

Last(seq) == seq[Len(seq)]

\* C1: every invocation of the frame callback requests exactly one next
\* invocation from the host's frame scheduler, whether the frame's steps
\* completed or one of them raised a failure.
C1_EveryFrameRequestsNext ==
  \A i \in DOMAIN frameLog : frameLog[i].rafs = 1

\* C2: when frame 1 fails during surface image acquisition the loop is not
\* stopped (frame 2 is pending with the host or has run), and when frame 2
\* then succeeds exactly one render_frame error has been logged and frame 2
\* submitted a command buffer.
C2_ScenarioE ==
  (Len(frameLog) >= 1 /\ frameLog[1].failAt \in {1, 2}) =>
     /\ rafPending > 0 \/ Len(frameLog) >= 2
     /\ (Len(frameLog) = 2 /\ frameLog[2].failAt = 0) =>
          (ErrorCalls("render_frame") = 1 /\ frameLog[2].submitted)

\* C3: fail-fast initialization: once a step has failed the pipeline is
\* Failed, the steps attempted are exactly those up to the failing one (no
\* later step, no retry), no resource of a later step has been acquired or
\* configured, and the frame callback has neither been scheduled nor run.
C3_FailFast ==
  /\ hostResponse.fault # "none" =>
       /\ state = "Failed"
       /\ failure # NoError
       /\ steps = SubSeq(StepOrder, 1, hostResponse.step)
       /\ hostResponse.step <= 3 => ~resources.adapter
       /\ hostResponse.step <= 4 =>
            (~resources.device /\ ~resources.context /\ resources.configures = 0)
       /\ rafRequests = 0 /\ rafPending = 0
       /\ frameTick = 0 /\ frameLog = <<>> /\ frameTrace = <<>>
  /\ state = "Failed" => hostResponse.fault # "none"

C3_Witness ==
  /\ hostResponse.fault = "device_rejected"
  /\ mainPromise = "handled"

\* the code of the single failure outcome of each step, in StepOrder
StepCode ==
  <<<<"not_found", "canvas">>, <<"unavailable", "webgpu">>,
    <<"not_found", "adapter">>, <<"failed", "device">>,
    <<"initialization_failed", "context">>>>

\* C4: each initialization step has exactly one failure outcome, with a fixed
\* code: whenever the pipeline has failed, the error is the AppError whose
\* code is that of the step that failed (the last one attempted), and a
\* failed device request carries the rejection as its cause.
C4_OneFailurePerStep ==
  state = "Failed" =>
    /\ failure.kind = "AppError"
    /\ failure.code = StepCode[Len(steps)]
    /\ failure.message = getMessageByErrorCode(StepCode[Len(steps)])
    /\ Len(steps) = 4 => failure.cause = hostResponse.value

\* The part of C4 the code does satisfy: each of the five listed conditions
\* yields its listed code and no other condition does; a rejected device
\* request carries the rejection as cause; the failing step is the last one
\* attempted.
TypedStepCodes ==
  LET f == hostResponse.fault
      typed(code) == failure.kind = "AppError" /\ failure.code = code
                     /\ failure.type = code[1] /\ failure.surface = code[2]
  IN /\ f = "canvas_absent" <=> typed(<<"not_found", "canvas">>)
     /\ f = "gpu_absent" <=> typed(<<"unavailable", "webgpu">>)
     /\ f = "adapter_null" <=> typed(<<"not_found", "adapter">>)
     /\ f = "device_rejected" <=> typed(<<"failed", "device">>)
     /\ f = "context_null" <=> typed(<<"initialization_failed", "context">>)
     /\ f = "device_rejected" =>
          /\ failure.cause = hostResponse.value
          /\ failure.message = "Failed to request a GPU device."
     /\ f \in {"canvas_absent", "gpu_absent", "adapter_null", "context_null"} =>
          failure.cause = Undefined
     /\ f # "none" => Len(steps) = hostResponse.step

\* C5: every failure initialization propagates to its caller is an AppError
\* whose code is one of the five initialization codes.
C5_InitFailuresTyped ==
  state = "Failed" => (failure.kind = "AppError" /\ failure.code \in InitCodes)

\* C6: main returns only from the state in which all five steps succeeded;
\* at the moment it returns the pipeline is Running and the frame callback
\* has been registered with the host exactly once, no frame body having run;
\* before that no registration has been made.
C6_ScheduledOnceBeforeReturn ==
  /\ [][(mainPromise = "pending" /\ mainPromise' = "fulfilled") =>
          /\ steps = StepOrder /\ hostResponse.fault = "none"
          /\ state = "ContextConfigured" /\ state' = "Running"
          /\ rafRequests = 0 /\ rafRequests' = 1
          /\ rafPending = 0 /\ rafPending' = 1
          /\ frameTick' = 0 /\ frameLog' = <<>> /\ frameTrace' = <<>>]_vars
  /\ [](state = "Running" <=> mainPromise = "fulfilled")
  /\ [](state # "Running" =>
          (rafRequests = 0 /\ rafPending = 0 /\ frameTick = 0 /\ frameLog = <<>>))
  /\ []((state = "ContextConfigured" /\ hostResponse.fault = "none") =>
          ENABLED StartRenderLoop)

C6_Witness ==
  /\ state = "Running" /\ mainPromise = "fulfilled"
  /\ rafRequests = 1 /\ rafPending = 1 /\ frameTick = 0

\* C7: the pipeline state only moves forward, one state at a time, along
\* Idle .. Running or into Failed; the steps attempted are always a prefix
\* of the fixed order (none twice, none out of order); Failed is absorbing
\* and keeps its error.
C7_ForwardOnly ==
  /\ [][/\ state' # state =>
             /\ state \notin {"Failed", "Running"}
             /\ state' = "Failed" \/ Rank(state') = Rank(state) + 1
        /\ state = "Failed" => (state' = "Failed" /\ failure' = failure)
        /\ steps' # steps => (Len(steps') = Len(steps) + 1 /\ IsPrefix(steps, steps'))
       ]_vars
  /\ [](IsPrefix(steps, StepOrder))
  /\ [](state # "Failed" =>
          Len(steps) =
            CASE state = "Idle" -> 0
              [] state = "TargetResolved" -> 1
              [] state = "CapabilityChecked" -> IF awaiting = "adapter" THEN 3 ELSE 2
              [] state = "AdapterAcquired" -> IF awaiting = "device" THEN 4 ELSE 3
              [] state = "DeviceAcquired" -> 4
              [] OTHER -> 5)

C7_Witness ==
  /\ state = "Failed" /\ mainPromise = "handled"
  /\ steps = StepOrder

\* C8: an initialization failure is not recovered in the pipeline: main's
\* promise is rejected, the top-level handler can run, and once it has run
\* the logger's error entry point has been called exactly once with
\* phase=main_initialization, for the error main threw; no frame is scheduled.
C8_InitFailureReported ==
  /\ state = "Failed" =>
       /\ mainPromise \in {"rejected", "handled"}
       /\ failure # NoError
       /\ rafRequests = 0 /\ rafPending = 0
  /\ mainPromise = "rejected" => ENABLED TopLevelCatch
  /\ ErrorCalls("main_initialization") = IF mainPromise = "handled" THEN 1 ELSE 0
  /\ mainPromise = "handled" =>
       /\ state = "Failed"
       /\ Last(logCalls).level = "error"
       /\ Last(logCalls).tag = "main_initialization"
       /\ Last(logCalls).code = failure.code
       /\ ErrorCalls("render_frame") = 0

C8_Witness ==
  /\ mainPromise = "handled"
  /\ failure.code = <<"not_found", "adapter">>
  /\ ErrorCalls("main_initialization") = 1

\* C9: a failure raised by any call of a frame body is caught inside the
\* callback and reported through logger.error with phase=render_frame; it
\* never propagates out of the callback and is never reported with
\* phase=main_initialization.
C9_FrameFailuresCaught ==
  /\ \A i \in DOMAIN frameLog : ~frameLog[i].propagated
  /\ ErrorCalls("render_frame") = Cardinality(FailedFrames)
  /\ (frameLog # <<>> /\ Last(frameLog).failAt # 0) =>
       /\ Last(logCalls).level = "error"
       /\ Last(logCalls).tag = "render_frame"
       /\ Last(frameTrace) = "logger.error"
  /\ frameLog # <<>> => ErrorCalls("main_initialization") = 0

C9_Witness ==
  /\ frameLog # <<>>
  /\ Last(frameLog).failAt = 1
  /\ ErrorCalls("render_frame") = 1

\* C10: once the pipeline is Running, under a fair host frame scheduler
\* frame invocations occur infinitely often.
C10_FramesInfinitelyOften ==
  [](state = "Running" => ([]<>(frameTick = 0) /\ []<>(frameTick = 1)))
\* C11: once the top-level handler has dealt with an initialization
\* failure, the failure's message is on a user-facing display exactly when
\* its surface has visibility user (or both); a failed:device failure is
\* reported to the logger and not displayed.
C11_RoutingFollowsVisibility ==
  (mainPromise = "handled" /\ failure.kind = "AppError") =>
     /\ shouldShowToUser(failure) <=>
          (\E i \in DOMAIN userDisplay : userDisplay[i] = failure.message)
     /\ failure.code = <<"failed", "device">> =>
          ErrorCalls("main_initialization") = 1
\* the message table and the fallback, as fixed by the specification
ExpectedMessage(code) ==
  IF code = <<"unavailable", "webgpu">>
    THEN "WebGPU is not available in this environment."
  ELSE IF code = <<"not_found", "canvas">> THEN "Canvas element not found."
  ELSE IF code = <<"not_found", "adapter">> THEN "No suitable GPU adapter found."
  ELSE IF code = <<"failed", "device">> THEN "Failed to request a GPU device."
  ELSE IF code = <<"initialization_failed", "context">>
    THEN "Failed to initialize WebGPU canvas context."
  ELSE IF code = <<"failed", "pipeline">> THEN "Failed to create render pipeline."
  ELSE "Something went wrong. Please try again later."

\* the visibility table, as fixed by the specification
ExpectedVisibility(surface) ==
  IF surface \in {"device", "pipeline"} THEN "log" ELSE "user"

ResultsOf(op) == {i \in DOMAIN results : results[i].op = op}

\* C12: message lookup is total over the 4 x 6 codes: every call returns the
\* table message of a defined code and the fallback for every other code,
\* and an error constructed from a code carries exactly that message.
C12_MessageLookupTotal ==
  /\ \A i \in ResultsOf("getMessageByErrorCode") :
       results[i].value = ExpectedMessage(libInput.code)
  /\ subject # NoSubject =>
       /\ subject.err.code = libInput.code
       /\ subject.err.message = ExpectedMessage(libInput.code)

C12_Witness ==
  /\ libInput.code = <<"failed", "pipeline">>
  /\ subject # NoSubject
  /\ subject.err.message = "Failed to create render pipeline."
  /\ ResultsOf("getMessageByErrorCode") # {}

\* C13: getVisibility returns the table value of the error's surface, whatever
\* the failure kind and the cause, and repeated calls return the same value.
C13_VisibilityBySurfaceOnly ==
  /\ \A i \in ResultsOf("getVisibility") :
       results[i].value = ExpectedVisibility(libInput.code[2])
  /\ \A i, j \in ResultsOf("getVisibility") : results[i].value = results[j].value

C13_Witness ==
  /\ libInput.code = <<"failed", "webgpu">>
  /\ Truthy(libInput.cause)
  /\ Cardinality(ResultsOf("getVisibility")) = 2
  /\ results[1].value = "user"

\* C14: shouldShowToUser() is true exactly when the surface's visibility is
\* user or both, shouldLog() exactly when it is log or both; of the two
\* answers for one error at least one is true.
C14_ShowAndLogFollowVisibility ==
  /\ \A i \in ResultsOf("shouldShowToUser") :
       results[i].value <=>
         (ExpectedVisibility(libInput.code[2]) \in {"user", "both"})
  /\ \A i \in ResultsOf("shouldLog") :
       results[i].value <=>
         (ExpectedVisibility(libInput.code[2]) \in {"log", "both"})
  /\ \A i \in ResultsOf("shouldShowToUser"), j \in ResultsOf("shouldLog") :
       results[i].value \/ results[j].value

C14_Witness ==
  /\ libInput.code[2] = "context"
  /\ Len(results) = 2
  /\ results[1].op = "shouldShowToUser" /\ results[1].value = TRUE
  /\ results[2].op = "shouldLog" /\ results[2].value = FALSE

\* C18: serializing the same error twice yields identical output, and no
\* call changes the error: its code, message, type, surface and cause stay
\* those it was constructed with.
C18_ToJSONRepeatable ==
  /\ [](\A i, j \in ResultsOf("toJSON") : results[i].value = results[j].value)
  /\ [][subject # NoSubject => subject' = subject]_vars
  /\ [](subject # NoSubject =>
          /\ subject.err.code = libInput.code
          /\ subject.err.type = libInput.code[1]
          /\ subject.err.surface = libInput.code[2]
          /\ subject.err.message = ExpectedMessage(libInput.code)
          /\ subject.err.cause = libInput.cause)

C18_Witness ==
  /\ Cardinality(ResultsOf("toJSON")) = 2
  /\ libInput.cause = HostValue(1, TRUE)
  /\ libInput.stack
  /\ results[1].value = results[2].value

\* C20: the object toJSON returns has a cause field exactly when the cause
\* passed to the constructor is truthy (absent for no cause and for a falsy
\* cause), and the field then equals that cause.
C20_CauseFieldIffTruthy ==
  \A i \in ResultsOf("toJSON") :
    LET json == results[i].value
        truthy == libInput.cause.k = "value" /\ libInput.cause.v # 0
    IN /\ ("cause" \in DOMAIN json) <=> truthy
       /\ truthy => json.cause = libInput.cause

C20_Witness ==
  /\ libInput.cause = HostValue(0, FALSE)
  /\ ResultsOf("toJSON") # {}
  /\ "cause" \notin DOMAIN results[1].value
\* C15: at most one frame invocation is pending with the host at any time
\* (and none unless the pipeline is Running), no invocation registers more
\* than one callback, and within an invocation requestAnimationFrame is
\* called only after the command buffer has been submitted.
C15_NoOverlapNoBacklog ==
  /\ rafPending \in {0, 1}
  /\ rafPending = 1 => state = "Running"
  /\ \A i \in DOMAIN frameLog :
       /\ frameLog[i].rafs \in {0, 1}
       /\ frameLog[i].rafs = 1 => frameLog[i].submitted
  /\ \A i \in DOMAIN frameTrace :
       frameTrace[i] = "requestAnimationFrame" =>
         \E j \in 1..(i - 1) : frameTrace[j] = "submit"

C15_Witness ==
  /\ Len(frameLog) >= 2
  /\ \A i \in DOMAIN frameLog : frameLog[i].submitted
  /\ rafPending = 1
  /\ Last(frameTrace) = "requestAnimationFrame"

\* C16: the context is configured at most once, only after adapter and
\* device have been acquired; a Running pipeline has configured it exactly
\* once, before any frame ran; a frame invocation changes no resource,
\* attempts no initialization step and makes no configure or request call.
C16_ResourcesCreatedOnce ==
  /\ [](resources.configures <= 1)
  /\ [](resources.configures = 1 =>
          (resources.adapter /\ resources.device /\ resources.context))
  /\ [](state = "Running" =>
          resources = [adapter |-> TRUE, device |-> TRUE, context |-> TRUE,
                       configures |-> 1])
  /\ []((frameTick # 0 \/ frameLog # <<>>) => resources.configures = 1)
  /\ [](\A i \in DOMAIN frameTrace :
          frameTrace[i] \notin {"configure", "requestAdapter", "requestDevice"})
  /\ [](\A i, j \in DOMAIN steps : steps[i] = steps[j] => i = j)
  /\ [][frameTick' # frameTick => (resources' = resources /\ steps' = steps)]_vars

C16_Witness ==
  /\ state = "Running"
  /\ Len(frameLog) >= 2
  /\ resources.configures = 1
\* C17: when the build mode is not development no call of debug, info, warn
\* or error emits a record; when it is development every call emits its
\* record.
C17_LoggerGatedByBuildMode ==
  /\ ~isDevelopment => console = <<>>
  /\ isDevelopment => console = logCalls

C17_Witness ==
  /\ ~isDevelopment
  /\ Len(logCalls) = 4
  /\ {logCalls[i].level : i \in DOMAIN logCalls} = {"debug", "info", "warn", "error"}
  /\ console = <<>>

\* ---------------------------------------------------------------------
\* Two runs of the program under opposite build modes.  The first run is
\* any run of main() and frame(); each of its steps is written to script
\* with the host's answer to it, and what the program shows outside the
\* Logger's output is written to obs.  The page is then loaded again with
\* import.meta.env.DEV negated, the host giving the same answers.

\* everything the program holds or does except the flag and the console
LowVars ==
  <<state, awaiting, failure, mainPromise, steps, hostResponse, resources,
    rafRequests, rafPending, frameTick, frameLog, frameTrace, logCalls,
    userDisplay>>

PairInit ==
  /\ MainIdle
  /\ libInput = NoInput
  /\ subject = NoSubject
  /\ results = <<>>
  /\ run = 1
  /\ script = <<>>
  /\ pos = 1
  /\ obs = <<>>

\* the host's part in the step just taken: its answer to main(), and the
\* place where it made the frame body throw
HostInput(act) ==
  [act |-> act, resp |-> hostResponse',
   failAt |-> IF act = "Frame" THEN Last(frameLog').failAt ELSE 0]

\* first run: the step is written down; second run: only the step the
\* first run took next, with the same answer from the host, is taken
Recorded(act) ==
  IF run = 1
    THEN /\ Len(script) < MaxScript
         /\ script' = Append(script, HostInput(act))
         /\ obs' = Append(obs, LowVars')
         /\ UNCHANGED <<run, pos>>
    ELSE /\ pos <= Len(script)
         /\ HostInput(act) = script[pos]
         /\ pos' = pos + 1
         /\ UNCHANGED <<run, script, obs>>

PairStep ==
  \/ ResolveTarget /\ Recorded("ResolveTarget")
  \/ CheckCapability /\ Recorded("CheckCapability")
  \/ RequestAdapter /\ Recorded("RequestAdapter")
  \/ AdapterSettled /\ Recorded("AdapterSettled")
  \/ RequestDevice /\ Recorded("RequestDevice")
  \/ DeviceSettled /\ Recorded("DeviceSettled")
  \/ ConfigureContext /\ Recorded("ConfigureContext")
  \/ StartRenderLoop /\ Recorded("StartRenderLoop")
  \/ TopLevelCatch /\ Recorded("TopLevelCatch")
  \/ Frame /\ Recorded("Frame")

\* the page is loaded again under the other build mode
Reload ==
  /\ run = 1
  /\ script # <<>>
  /\ run' = 2
  /\ pos' = 1
  /\ isDevelopment' = ~isDevelopment
  /\ state' = "Idle"
  /\ awaiting' = "none"
  /\ failure' = NoError
  /\ mainPromise' = "pending"
  /\ steps' = <<>>
  /\ hostResponse' = [step |-> 0, fault |-> "none", value |-> Undefined]
  /\ resources' = [adapter |-> FALSE, device |-> FALSE, context |-> FALSE,
                   configures |-> 0]
  /\ rafRequests' = 0
  /\ rafPending' = 0
  /\ frameTick' = 0
  /\ frameLog' = <<>>
  /\ frameTrace' = <<>>
  /\ logCalls' = <<>>
  /\ console' = <<>>
  /\ userDisplay' = <<>>
  /\ UNCHANGED <<script, obs>>
  /\ UNCHANGED LibVars

PairNext ==
  \/ PairStep
  \/ Reload

PairSpec == PairInit /\ [][PairNext]_vars

\* C19: the build-mode flag affects only what the Logger emits.  A run of
\* main() and the frames is run again with the flag negated and the host
\* giving the same answers: after every step of the second run the
\* initialization steps taken, the pipeline state, the failure, the GPU
\* calls and submissions of the frames, the frame-scheduling requests and
\* the calls made to the Logger are those the first run had after the same
\* step, and the second run can always take the step the first run took.
\* The console is the one thing left out of the comparison.
C19_FlagAffectsOnlyLogger ==
  (run = 2) =>
    /\ pos > 1 => LowVars = obs[pos - 1]
    /\ pos <= Len(script) => ENABLED PairStep

\* a production run of main() through two frames, the second of which
\* failed, has been run again to its end as a development build, which
\* wrote to the console
C19_Witness ==
  /\ run = 2
  /\ pos = Len(script) + 1
  /\ isDevelopment
  /\ state = "Running"
  /\ Len(frameLog) = 2
  /\ Last(frameLog).failAt # 0
  /\ rafPending = 0
  /\ console # <<>>

====
